---- MODULE Spec2Model ----
(***************************************************************************)
(* Execution offload of a container entry point.                           *)
(*                                                                         *)
(* device1: the container process.  Its libcontainer executor is either    *)
(*   Executor            (executor.rs): classifies the entry point, caches *)
(*                       the decision, runs native / engine / rejects;     *)
(*   DistributedExecuter (distributed_executer.rs): ships the entry point  *)
(*                       to the remote endpoint with RunWasi.              *)
(* device2: the gRPC service Device2Executer (main.rs) serving RunWasi.    *)
(***************************************************************************)
EXTENDS Integers, Sequences, FiniteSets, TLC

(* ------------------------------ bounds -------------------------------- *)
\* Candidates the search order yields for arg0.
MaxCands == 2
\* validate/exec calls the hosting runtime makes on one executor instance.
MaxCalls == 3
\* Requests other clients of the service send.
MaxPeerReqs == 2

(* --------------------------- program constants ------------------------ *)
\* std::process::exit(137)
SentinelExit == 137

(* ------------------------------ file bytes ---------------------------- *)
ELF      == <<127, 69, 76, 70, 2>>
SHEBANG  == <<35, 33, 47, 98>>
SHEBANG2 == <<35, 33>>
WASMA    == <<0, 97, 115, 109, 1>>
WASMB    == <<0, 97, 115, 109, 2>>
BAD      == <<1, 2, 3, 4>>
EMPTY    == <<>>

\* Files a candidate path can hold: the permission bits and the content.
\* 493 = 0o755, 420 = 0o644, 448 = 0o700.
Files ==
    { [mode |-> 493, bytes |-> ELF],
      [mode |-> 493, bytes |-> SHEBANG],
      [mode |-> 493, bytes |-> SHEBANG2],
      [mode |-> 493, bytes |-> WASMA],
      [mode |-> 493, bytes |-> BAD],
      [mode |-> 493, bytes |-> EMPTY],
      [mode |-> 420, bytes |-> WASMB],
      [mode |-> 448, bytes |-> ELF] }

RECURSIVE SeqsUpTo(_, _)
SeqsUpTo(S, n) ==
    IF n = 0 THEN { <<>> }
    ELSE LET shorter == SeqsUpTo(S, n - 1)
         IN  shorter \cup { Append(s, x) : s \in { t \in shorter : Len(t) = n - 1 }, x \in S }

\* The candidates `resolve_in_path` yields for arg0 "app", in search order.
FileSystems == SeqsUpTo(Files, MaxCands)

\* File systems where arg0 has at most one candidate.
SingleCandidate == { files \in FileSystems : Len(files) <= 1 }

(* ------------------------------ contexts ------------------------------ *)
\* What RuntimeContext::entrypoint / args / envs give for a container spec.
Contexts ==
    { [source |-> s, arg0 |-> a, func |-> f, name |-> n,
       args |-> IF a = "none" THEN <<>> ELSE <<a, "x">>,
       envs |-> <<"A=1", "B=2">>] :
        s \in {"File", "Oci"}, a \in {"none", "app"},
        f \in {"add_one", "nofn"}, n \in {"none", "mod"} }

NoCtx == [source |-> "-", arg0 |-> "-", func |-> "-", name |-> "-",
          args |-> <<>>, envs |-> <<>>]

(* ------------------------------- state -------------------------------- *)
VARIABLES
    executor,      \* which libcontainer executor the shim was built with
    fs,            \* candidates of arg0 in search order (mode, bytes)
    inner,         \* the OnceCell<InnerExecutor> of the executor instance
    fsProbes,      \* runs of is_linux_container on this instance
    engineProbes,  \* calls of Engine::can_handle on this instance
    observed,      \* variants that inner(spec) has returned to validate/exec
    sameCtx,       \* every call so far was given the same context
    ncalls,        \* validate/exec calls started on this instance
    call,          \* the current (or last) call: op, ctx, result, err (the error
                   \* value returned), cls (the classification it acted on),
                   \* fresh (what classifying the entry point at the time of the
                   \* call gives) and, when the call ran the closure of
                   \* get_or_init: why (what is_linux_container said), eng (what
                   \* Engine::can_handle said), touched (the probe went to the
                   \* file system)
    proc,          \* the container process: running, exited, replaced, panicked
    exitCode,      \* the code given to std::process::exit, -1 before
    logged,        \* "error running start function" lines logged
    delegated,     \* the context handed to DefaultExecutor in this call
    penv,          \* the environment of the container process
    pc,            \* position of DistributedExecuter::exec
    req,           \* the WasiContext request built by DistributedExecuter::exec
    connects,      \* connections opened in this call
    sent,          \* RunWasi requests sent in this call
    net,           \* requests in flight to the service
    resp,          \* per client, the answer to its request
    server,        \* the device2 process: serving, aborted
    panicAbort,    \* the service is built with panic = "abort"
    peerReqs       \* requests other clients have sent

clientVars == <<executor, fs, inner, fsProbes, engineProbes, observed, sameCtx,
                ncalls, call, proc, exitCode, logged, delegated, penv>>
dispatchVars == <<pc, req, connects, sent>>
serviceVars == <<net, resp, server, panicAbort, peerReqs>>
vars == <<clientVars, dispatchVars, serviceVars>>

(* ------------------------ classification (executor.rs) ---------------- *)
\* PathResolve::resolve_in_path: the candidate files of arg0, in search order.
ResolveInPath(arg0, files) == IF arg0 = "app" THEN files ELSE <<>>

\* mode & 0o001 != 0
ModeAccepts(mode) == mode % 2 = 1

\* find_map over the candidates: index of the first accepted one, 0 if none.
FindExecutable(cands) ==
    LET ok == { i \in 1..Len(cands) : ModeAccepts(cands[i].mode) }
    IN  IF ok = {} THEN 0 ELSE CHOOSE i \in ok : \A j \in ok : i <= j

\* A read that keeps the zeroes of the buffer where the file ends early.
ReadZeroPadded(bytes) ==
    [i \in 1..4 |-> IF i <= Len(bytes) THEN bytes[i] ELSE 0]

\* File::open(executable)?.read_exact(&mut [0; 4]): the four bytes, or <<>> on error.
ReadExact4(bytes) == IF Len(bytes) < 4 THEN <<>> ELSE SubSeq(bytes, 1, 4)

\* A match with the ELF arm only.
IsElfMagic(buffer) == buffer = <<127, 69, 76, 70>>

\* match buffer { ELF magic | shebang }
IsNativeMagic(buffer) ==
    \/ buffer = <<127, 69, 76, 70>>
    \/ buffer[1] = 35 /\ buffer[2] = 33

\* A classification that resolves arg0 whatever the source is.
is_linux_container_any_source(c, files) ==
    IF c.arg0 = "none" THEN "no entrypoint provided"
    ELSE LET cands == ResolveInPath(c.arg0, files)
             i     == FindExecutable(cands)
         IN  IF i = 0 THEN "entrypoint not found"
             ELSE LET buffer == ReadExact4(cands[i].bytes)
                  IN  IF buffer = <<>> THEN "read error"
                      ELSE IF IsNativeMagic(buffer) THEN "Ok"
                      ELSE "not a valid script or elf file"

\* is_linux_container: "Ok", or the error it bails with.
is_linux_container(c, files) ==
    IF c.source = "Oci" THEN "the entry point contains wasm layers"
    ELSE IF c.arg0 = "none" THEN "no entrypoint provided"
    ELSE LET cands == ResolveInPath(c.arg0, files)
             i     == FindExecutable(cands)
         IN  IF i = 0 THEN "entrypoint not found"
             ELSE LET buffer == ReadExact4(cands[i].bytes)
                  IN  IF buffer = <<>> THEN "read error"
                      ELSE IF IsNativeMagic(buffer) THEN "Ok"
                      ELSE "not a valid script or elf file"

\* The closure given to get_or_init in Executor::inner; can = Engine::can_handle is Ok.
InnerInit(c, files, can) ==
    IF is_linux_container(c, files) = "Ok" THEN "Linux"
    ELSE IF can THEN "Wasm" ELSE "CantHandle"

\* A cell that forgets: the closure runs on every call.
NeedsInitAlways(cell) == TRUE

\* OnceCell::get_or_init runs its closure only on an empty cell.
NeedsInit(cell) == cell = "None"

\* A cache keyed by the context: a context other than the last one is classified anew.
InnerValueKeyed(c, can) ==
    IF inner = "None" \/ c # call.ctx THEN InnerInit(c, fs, can) ELSE inner

\* What Executor::inner(spec) returns.
InnerValue(c, can) == IF NeedsInit(inner) THEN InnerInit(c, fs, can) ELSE inner

\* Executor::inner(spec): the cell and the probes it makes.
Inner(c, can) ==
    /\ inner' = InnerValue(c, can)
    /\ fsProbes' = IF NeedsInit(inner) THEN fsProbes + 1 ELSE fsProbes
    /\ engineProbes' = IF NeedsInit(inner) /\ is_linux_container(c, fs) # "Ok"
                       THEN engineProbes + 1 ELSE engineProbes
    /\ observed' = observed \cup { InnerValue(c, can) }

\* E::name()
EngineName == "engine"

\* ExecutorValidationError::CantHandle(E::name()), ExecutorError::CantHandle(E::name())
CantHandleError == <<"CantHandle", EngineName>>

\* is_linux_container went past the source and arg0 checks: resolve_in_path,
\* metadata and File::open go to the file system.
FsTouched(c, files) ==
    is_linux_container(c, files) \notin
        {"the entry point contains wasm layers", "no entrypoint provided"}

\* The record of a call; probed: the call ran the closure of get_or_init.
MkCall(op, c, cls, can, result, probed) ==
    [op |-> op, ctx |-> c, cls |-> cls, fresh |-> InnerInit(c, fs, can),
     result |-> result,
     err |-> IF result = "CantHandle" THEN CantHandleError ELSE <<>>,
     why |-> IF probed THEN is_linux_container(c, fs) ELSE "-",
     eng |-> IF probed /\ is_linux_container(c, fs) # "Ok"
             THEN (IF can THEN "ok" ELSE "err") ELSE "-",
     touched |-> probed /\ FsTouched(c, fs), map |-> <<>>]

\* A call of the hosting runtime starts on the instance.
BeginCall(c) ==
    /\ proc = "running"
    /\ pc = "idle"
    /\ ncalls < MaxCalls
    /\ ncalls' = ncalls + 1
    /\ sameCtx' = (sameCtx /\ (call.ctx = NoCtx \/ call.ctx = c))

(* --------------------------- Executor (executor.rs) ------------------- *)
\* Exit codes Engine::run_wasi can return.
EngineCodes == {0, 1}

\* Executor::validate
Validate(c, can) ==
    /\ executor = "Executor"
    /\ BeginCall(c)
    /\ Inner(c, can)
    /\ call' = MkCall("validate", c, InnerValue(c, can), can,
                       IF InnerValue(c, can) = "CantHandle" THEN "CantHandle" ELSE "Ok",
                       NeedsInit(inner))
    /\ delegated' = NoCtx
    /\ connects' = 0 /\ sent' = 0
    /\ UNCHANGED <<penv, executor, fs, proc, exitCode, logged, pc, req, serviceVars>>

\* Executor::exec, InnerExecutor::CantHandle arm
ExecCantHandle(c, can) ==
    /\ executor = "Executor"
    /\ BeginCall(c)
    /\ Inner(c, can)
    /\ InnerValue(c, can) = "CantHandle"
    /\ call' = MkCall("exec", c, "CantHandle", can, "CantHandle", NeedsInit(inner))
    /\ delegated' = NoCtx
    /\ connects' = 0 /\ sent' = 0
    /\ UNCHANGED <<penv, executor, fs, proc, exitCode, logged, pc, req, serviceVars>>

\* Executor::exec, InnerExecutor::Linux arm: DefaultExecutor {}.exec(spec), which
\* replaces the process image (replaced) or returns its error.
ExecLinux(c, can, replaced) ==
    /\ executor = "Executor"
    /\ BeginCall(c)
    /\ Inner(c, can)
    /\ InnerValue(c, can) = "Linux"
    /\ delegated' = c
    /\ proc' = IF replaced THEN "replaced" ELSE proc
    /\ call' = MkCall("exec", c, "Linux", can,
                       IF replaced THEN "replaced" ELSE "DelegateErr", NeedsInit(inner))
    /\ connects' = 0 /\ sent' = 0
    /\ UNCHANGED <<penv, executor, fs, exitCode, logged, pc, req, serviceVars>>

\* Executor::exec, InnerExecutor::Wasm arm: Engine::run_wasi, then process::exit.
\* code = -1 stands for Err(err).
ExecWasm(c, can, code) ==
    /\ executor = "Executor"
    /\ BeginCall(c)
    /\ Inner(c, can)
    /\ InnerValue(c, can) = "Wasm"
    /\ delegated' = NoCtx
    /\ proc' = "exited"
    /\ exitCode' = IF code = -1 THEN SentinelExit ELSE code
    /\ logged' = IF code = -1 THEN logged + 1 ELSE logged
    /\ call' = MkCall("exec", c, "Wasm", can, "exit", NeedsInit(inner))
    /\ connects' = 0 /\ sent' = 0
    /\ UNCHANGED <<penv, executor, fs, pc, req, serviceVars>>

(* ------------------------------ setup_envs ---------------------------- *)
\* The maps the hosting runtime passes to setup_envs.
EnvMaps == { <<>>, <<"Z=9">> }

\* An executor that exports the map into the process, as libcontainer's default does.
ApplyEnvsExported(env, map) == map

\* The process environment after setup_envs(map): the body is Ok(()).
ApplyEnvs(env, map) == env

\* Executor::setup_envs, DistributedExecuter::setup_envs
SetupEnvs(map) ==
    /\ proc = "running"
    /\ pc = "idle"
    /\ ncalls < MaxCalls
    /\ ncalls' = ncalls + 1
    /\ penv' = ApplyEnvs(penv, map)
    /\ call' = [op |-> "setup_envs", ctx |-> call.ctx, cls |-> "None", fresh |-> "None",
                result |-> "Ok", err |-> <<>>, why |-> "-", eng |-> "-", touched |-> FALSE,
                map |-> map]
    /\ UNCHANGED <<executor, fs, inner, fsProbes, engineProbes, observed, sameCtx,
                   proc, exitCode, logged, delegated, dispatchVars, serviceVars>>

(* ------------------ DistributedExecuter (distributed_executer.rs) ----- *)
\* The module of an embedded WASM layer.
OciLayer == WASMA

\* Source::as_bytes: the bytes of the entry point, or <<-1>> for its error.
AsBytesErr == <<-1>>
AsBytes(c, files) ==
    IF c.source = "Oci" THEN OciLayer
    ELSE IF c.arg0 = "none" \/ ResolveInPath(c.arg0, files) = <<>> THEN AsBytesErr
    ELSE ResolveInPath(c.arg0, files)[1].bytes

NoReq == [args |-> <<>>, envs |-> <<>>, wasm_bytes |-> <<>>,
          func_name |-> "-", module_name |-> "-"]

\* name.unwrap_or_default(): no "main" for an entry point without a name.
ModuleNameEmpty(name) == IF name = "none" THEN "" ELSE name

\* name.unwrap_or_else(|| String::from("main"))
ModuleName(name) == IF name = "none" THEN "main" ELSE name

\* The WasiContext message exec builds.
BuildRequest(c, files) ==
    [args |-> c.args, envs |-> c.envs, wasm_bytes |-> AsBytes(c, files),
     func_name |-> c.func, module_name |-> ModuleName(c.name)]

NoResp == [kind |-> "none", status |-> 0, step |-> "-", for |-> NoReq]
TransportErr(r) == [kind |-> "transport", status |-> 0, step |-> "-", for |-> r]

\* An .expect() fails in the container process.
ClientPanic ==
    /\ proc' = "panicked"
    /\ pc' = "idle"

\* DistributedExecuter::validate
DValidate(c, can) ==
    /\ executor = "DistributedExecuter"
    /\ BeginCall(c)
    /\ call' = MkCall("validate", c, InnerInit(c, fs, can), can, "Ok", FALSE)
    /\ delegated' = NoCtx
    /\ connects' = 0 /\ sent' = 0
    /\ UNCHANGED <<penv, executor, fs, inner, fsProbes, engineProbes, observed, proc,
                   exitCode, logged, pc, req, serviceVars>>

\* DistributedExecuter::exec up to block_on: the context, the bytes, the tokio runtime.
\* can is what Engine::can_handle would answer (exec does not ask); rtOk is
\* TokioRuntime::new succeeding.
DExecBegin(c, can, rtOk) ==
    /\ executor = "DistributedExecuter"
    /\ BeginCall(c)
    /\ delegated' = NoCtx
    /\ connects' = 0 /\ sent' = 0
    /\ IF AsBytes(c, fs) = AsBytesErr \/ ~rtOk
       THEN /\ ClientPanic
            /\ req' = NoReq
            /\ call' = MkCall("exec", c, InnerInit(c, fs, can), can, "panic", FALSE)
       ELSE /\ pc' = "connect"
            /\ req' = BuildRequest(c, fs)
            /\ proc' = proc
            /\ call' = MkCall("exec", c, InnerInit(c, fs, can), can, "pending", FALSE)
    /\ UNCHANGED <<penv, executor, fs, inner, fsProbes, engineProbes, observed,
                   exitCode, logged, serviceVars>>

\* DistributedExecuterClient::connect(server_address).await.expect(..)
DConnect(ok) ==
    /\ pc = "connect"
    /\ ok => server = "serving"
    /\ IF ok
       THEN /\ pc' = "call"
            /\ connects' = connects + 1
            /\ UNCHANGED <<proc, call>>
       ELSE /\ ClientPanic
            /\ call' = [call EXCEPT !.result = "panic"]
            /\ UNCHANGED connects
    /\ UNCHANGED <<penv, executor, fs, inner, fsProbes, engineProbes, observed, sameCtx,
                   ncalls, exitCode, logged, delegated, req, sent, serviceVars>>

\* client.run_wasi(request): the request leaves.
DSend ==
    /\ pc = "call"
    /\ pc' = "await"
    /\ sent' = sent + 1
    /\ net' = net \cup { [from |-> "dev1", msg |-> req] }
    /\ resp' = [resp EXCEPT !["dev1"] = NoResp]
    /\ UNCHANGED <<clientVars, req, connects, server, panicAbort, peerReqs>>

\* A dispatcher that sends the request again when the call failed.
DRecvRetry ==
    /\ pc = "await"
    /\ resp["dev1"].kind # "none"
    /\ IF resp["dev1"].kind = "ok"
       THEN /\ pc' = "idle"
            /\ call' = [call EXCEPT !.result = "Ok"]
       ELSE /\ pc' = "call"
            /\ call' = call
    /\ UNCHANGED <<penv, executor, fs, inner, fsProbes, engineProbes, observed, sameCtx,
                   ncalls, proc, exitCode, logged, delegated, req, connects, sent,
                   serviceVars>>

\* .await.expect("error while calling the rpc function"); println!; return Ok(())
DRecv ==
    /\ pc = "await"
    /\ resp["dev1"].kind # "none"
    /\ IF resp["dev1"].kind = "ok"
       THEN /\ pc' = "idle"
            /\ call' = [call EXCEPT !.result = "Ok"]
            /\ UNCHANGED proc
       ELSE /\ ClientPanic
            /\ call' = [call EXCEPT !.result = "panic"]
    /\ UNCHANGED <<penv, executor, fs, inner, fsProbes, engineProbes, observed, sameCtx,
                   ncalls, exitCode, logged, delegated, req, connects, sent,
                   serviceVars>>

(* ----------------------- Device2Executer (device2/src/main.rs) -------- *)
\* Module::from_buf accepts the bytes.
ValidModule(bytes) == bytes \in {WASMA, WASMB}

\* The exports of a module and what a call of each does: return a number, or trap.
Returns(n) == [trap |-> FALSE, value |-> n]
Traps == [trap |-> TRUE, value |-> 0]
Exports(bytes) ==
    IF bytes = WASMA THEN [add_one |-> Returns(1), zero |-> Returns(0), boom |-> Traps]
    ELSE IF bytes = WASMB THEN [add_one |-> Returns(2)]
    ELSE <<>>

\* function.call(..).map(|_| 0)
StatusOf(returned) == 0

\* Device2Executer::run_wasi on message m: the response, or the step whose
\* .expect() panics.  rtOk, instOk: Runtime::new and Instance::new succeed.
RunWasi(m, rtOk, instOk) ==
    LET panic(step) == [kind |-> "panic", status |-> 0, step |-> step, for |-> m]
    IN  IF ~rtOk THEN panic("runtime")
        ELSE IF ~ValidModule(m.wasm_bytes) THEN panic("module")
        ELSE IF ~instOk THEN panic("instance")
        ELSE IF m.func_name \notin DOMAIN Exports(m.wasm_bytes) THEN panic("find")
        ELSE IF Exports(m.wasm_bytes)[m.func_name].trap THEN panic("call")
        ELSE [kind |-> "ok", status |-> StatusOf(Exports(m.wasm_bytes)[m.func_name].value),
              step |-> "-", for |-> m]

\* The service handles one request in flight; rtFail, instFail: Runtime::new,
\* Instance::new fail.
Handle(r, rtFail, instFail) ==
    /\ server = "serving"
    /\ r \in net
    /\ LET out == RunWasi(r.msg, ~rtFail, ~instFail)
       IN  IF out.kind = "ok"
           THEN /\ resp' = [resp EXCEPT ![r.from] = out]
                /\ net' = net \ {r}
                /\ UNCHANGED server
           ELSE IF panicAbort
           THEN \* the process aborts: every call in flight loses its connection
                /\ server' = "aborted"
                /\ resp' = [cl \in DOMAIN resp |->
                              IF cl = r.from THEN out
                              ELSE IF \E q \in net : q.from = cl
                                   THEN TransportErr((CHOOSE q \in net : q.from = cl).msg)
                                   ELSE resp[cl]]
                /\ net' = {}
           ELSE \* the panic unwinds the task serving the call
                /\ resp' = [resp EXCEPT ![r.from] = out]
                /\ net' = net \ {r}
                /\ UNCHANGED server
    /\ UNCHANGED <<clientVars, dispatchVars, panicAbort, peerReqs>>

\* The transport loses a call in flight.
Drop(r) ==
    /\ r \in net
    /\ net' = net \ {r}
    /\ resp' = [resp EXCEPT ![r.from] = TransportErr(r.msg)]
    /\ UNCHANGED <<clientVars, dispatchVars, server, panicAbort, peerReqs>>

\* Requests other clients send.
PeerMessages ==
    { [args |-> <<>>, envs |-> <<>>, wasm_bytes |-> b, func_name |-> f,
       module_name |-> "main"] :
        b \in {WASMA, WASMB, EMPTY, BAD}, f \in {"add_one", "zero", "boom", "nofn"} }

\* The clients of the service: the container process and its peers.
Peers == {"peer1", "peer2"}
Clients == {"dev1"} \cup Peers

\* A peer sends a request.
PeerSend(cl, m) ==
    /\ peerReqs < MaxPeerReqs
    /\ server = "serving"
    /\ ~ \E q \in net : q.from = cl
    /\ peerReqs' = peerReqs + 1
    /\ net' = net \cup { [from |-> cl, msg |-> m] }
    /\ resp' = [resp EXCEPT ![cl] = NoResp]
    /\ UNCHANGED <<clientVars, dispatchVars, server, panicAbort>>

(* ------------------------------ environment --------------------------- *)
\* A candidate file is replaced on disk.
FsChange(i, f) ==
    /\ fs[i] # f
    /\ fs' = [fs EXCEPT ![i] = f]
    /\ UNCHANGED <<penv, executor, inner, fsProbes, engineProbes, observed, sameCtx,
                   ncalls, call, proc, exitCode, logged, delegated,
                   dispatchVars, serviceVars>>

(* ---------------------------- specification --------------------------- *)
Fresh ==
    /\ inner = "None"
    /\ fsProbes = 0
    /\ engineProbes = 0
    /\ observed = {}
    /\ sameCtx = TRUE
    /\ ncalls = 0
    /\ call = [op |-> "none", ctx |-> NoCtx, cls |-> "None", fresh |-> "None",
               result |-> "-", err |-> <<>>, why |-> "-", eng |-> "-", touched |-> FALSE,
               map |-> <<>>]
    /\ proc = "running"
    /\ exitCode = -1
    /\ logged = 0
    /\ delegated = NoCtx
    /\ penv = <<>>
    /\ pc = "idle"
    /\ req = NoReq
    /\ connects = 0
    /\ sent = 0
    /\ net = {}
    /\ resp = [cl \in Clients |-> NoResp]
    /\ server = "serving"
    /\ panicAbort \in BOOLEAN
    /\ peerReqs = 0

\* A container process with either executor, the service, and no peers.
Init ==
    /\ executor \in {"Executor", "DistributedExecuter"}
    /\ fs \in SingleCandidate
    /\ Fresh

Next ==
    \/ \E c \in Contexts, can \in BOOLEAN : Validate(c, can)
    \/ \E c \in Contexts, can \in BOOLEAN : ExecCantHandle(c, can)
    \/ \E c \in Contexts, can \in BOOLEAN, replaced \in BOOLEAN : ExecLinux(c, can, replaced)
    \/ \E c \in Contexts, can \in BOOLEAN, code \in EngineCodes \cup {-1} : ExecWasm(c, can, code)
    \/ \E map \in EnvMaps : SetupEnvs(map)
    \/ \E c \in Contexts, can \in BOOLEAN : DValidate(c, can)
    \/ \E c \in Contexts, can \in BOOLEAN, rtOk \in BOOLEAN : DExecBegin(c, can, rtOk)
    \/ \E ok \in BOOLEAN : DConnect(ok)
    \/ DSend
    \/ DRecv
    \/ \E r \in net, rtFail \in BOOLEAN, instFail \in BOOLEAN : Handle(r, rtFail, instFail)
    \/ \E r \in net : Drop(r)
    \/ \E i \in 1..Len(fs), f \in Files : FsChange(i, f)

Spec == Init /\ [][Next]_vars

\* The service alone, serving its peers; the container process makes no call.
ServiceInit ==
    /\ executor = "Executor"
    /\ fs = <<>>
    /\ Fresh

ServiceNext ==
    \/ \E cl \in Peers, m \in PeerMessages : PeerSend(cl, m)
    \/ \E r \in net, rtFail \in BOOLEAN, instFail \in BOOLEAN : Handle(r, rtFail, instFail)
    \/ \E r \in net : Drop(r)

ServiceSpec == ServiceInit /\ [][ServiceNext]_vars

\* The executor alone, over every file system of the search order.
ClassifierInit ==
    /\ executor = "Executor"
    /\ fs \in FileSystems
    /\ Fresh

\* The contexts that differ in what classification reads: the source and arg0.
EntryPoints == { c \in Contexts : c.func = "add_one" /\ c.name = "none" }

ClassifierNext ==
    \/ \E c \in EntryPoints, can \in BOOLEAN : Validate(c, can)
    \/ \E c \in EntryPoints, can \in BOOLEAN : ExecCantHandle(c, can)
    \/ \E c \in EntryPoints, can \in BOOLEAN, replaced \in BOOLEAN : ExecLinux(c, can, replaced)
    \/ \E c \in EntryPoints, can \in BOOLEAN, code \in EngineCodes \cup {-1} : ExecWasm(c, can, code)

ClassifierSpec == ClassifierInit /\ [][ClassifierNext]_vars

(* -------------------------------- claims ------------------------------ *)
\* The exec call of DistributedExecuter built its request and is over.
DExecOver ==
    /\ executor = "DistributedExecuter"
    /\ call.op = "exec"
    /\ req # NoReq
    /\ pc = "idle"

\* The answer a says the export was missing from a module that loaded.
MissingExport(a) ==
    /\ a.kind \notin {"none", "transport"}
    /\ a.step \notin {"runtime", "instance"}
    /\ ValidModule(a.for.wasm_bytes)
    /\ a.for.func_name \notin DOMAIN Exports(a.for.wasm_bytes)

\* C1: as long as every validate/exec call on an executor instance is given the
\* same context, all calls observe one classification variant and the entry
\* point is probed on the file system at most once.
C1_ClassifiedOnce ==
    sameCtx => (Cardinality(observed) <= 1 /\ fsProbes <= 1)

\* C1 witness: validate then exec on one context, one probe, and the file on
\* disk no longer native when exec used the cached Linux decision.
C1_Witness ==
    /\ executor = "Executor"
    /\ sameCtx
    /\ ncalls >= 2
    /\ call.op = "exec"
    /\ fsProbes = 1
    /\ call.cls = "Linux"
    /\ call.fresh # "Linux"

\* C2: when the remote call returned a result with status N, exec has ended
\* the process with exit code N and has not returned to its caller.
C2_StatusIsExitCode ==
    (DExecOver /\ sent = 1 /\ resp["dev1"].kind = "ok")
        => (proc = "exited" /\ exitCode = resp["dev1"].status /\ call.result # "Ok")

\* C3: when the remote call failed (no connection, a transport error, a remote
\* failure), exec has ended the process with exit code 137 and nothing panicked;
\* the executor that logs a failure of the start function exits with 137.
C3_FailureIsSentinel ==
    /\ (DExecOver /\ (connects = 0 \/ (sent = 1 /\ resp["dev1"].kind \in {"transport", "panic"})))
          => (proc = "exited" /\ exitCode = SentinelExit)
    /\ (executor = "Executor" /\ logged > 0)
          => (proc = "exited" /\ exitCode = SentinelExit)

\* C4: no RunWasi request is answered by a panic of the handler: a failing
\* step is reported to the caller as a typed RPC error.
C4_TypedErrors ==
    \A cl \in Clients : resp[cl].kind # "panic"

C6_UnsupportedIsRejected ==
    (call.op # "none" /\ call.cls = "CantHandle")
        => /\ call.result = "CantHandle"
           /\ delegated = NoCtx
           /\ connects = 0
           /\ sent = 0

\* C7: when the entry point classifies as Native, exec hands the same context
\* to the native delegate, returns its outcome, opens no connection and sends
\* no RunWasi request.
C7_NativeIsDelegated ==
    (call.op = "exec" /\ call.cls = "Linux")
        => /\ delegated = call.ctx
           /\ call.result \in {"replaced", "DelegateErr"}
           /\ connects = 0
           /\ sent = 0

\* C8 as stated: an exec call of the dispatcher that is over has issued exactly
\* one RunWasi request.
C8_ExactlyOneRequest ==
    DExecOver => sent = 1

\* C8 as amended: an exec call issues at most one RunWasi request, never two in
\* flight, none before its connection is established and exactly one after.
C8_AtMostOneRequest ==
    /\ sent <= 1
    /\ Cardinality({ q \in net : q.from = "dev1" }) <= 1
    /\ connects = 0 => sent = 0
    /\ (DExecOver /\ connects = 1) => sent = 1

\* C8 witness: the call was sent once, it failed, and exec is over without a
\* second request.
C8_Witness ==
    /\ DExecOver
    /\ connects = 1
    /\ sent = 1
    /\ resp["dev1"].kind \in {"transport", "panic"}
    /\ call.result = "panic"

\* C9: a request naming an export the module lacks is answered with the typed
\* "function not found" error, and the dispatcher turns that answer into a
\* non-zero exit code.
C9_MissingExportIsTyped ==
    /\ \A cl \in Clients : MissingExport(resp[cl]) => resp[cl].kind = "notfound"
    /\ (DExecOver /\ sent = 1 /\ MissingExport(resp["dev1"]))
          => (proc = "exited" /\ exitCode \notin {-1, 0})

\* C10: the status of a successful RunWasi result is the number the invoked
\* export returned.
C10_StatusIsReturnValue ==
    \A cl \in Clients :
        resp[cl].kind = "ok"
            => resp[cl].status = Exports(resp[cl].for.wasm_bytes)[resp[cl].for.func_name].value

C12_RequestFromContext ==
    [][ (pc = "idle" /\ pc' = "connect")
          => /\ req'.module_name =
                    (IF call'.ctx.name = "none" THEN "main" ELSE call'.ctx.name)
             /\ req'.func_name = call'.ctx.func
             /\ req'.wasm_bytes = AsBytes(call'.ctx, fs)
             /\ req'.args = call'.ctx.args
             /\ req'.envs = call'.ctx.envs ]_vars

\* C12 witness: exec has built the request of an entry point without a name,
\* with two args and two envs.
C12_Witness ==
    /\ pc = "connect"
    /\ call.ctx.name = "none"
    /\ req.module_name = "main"
    /\ req.func_name = "add_one"
    /\ req.wasm_bytes = WASMA
    /\ req.args = <<"app", "x">>
    /\ req.envs = <<"A=1", "B=2">>

\* C13: every request the dispatcher sends over the wire has non-empty
\* wasm_bytes and a non-empty func_name; an entry point with empty module bytes
\* or an empty function name never results in a request being sent.
C13_SentRequestsNonEmpty ==
    \A q \in net :
        q.from = "dev1" => (q.msg.wasm_bytes # <<>> /\ q.msg.func_name # "")

\* C14: for an Unsupported classification the capability-mismatch error handed
\* back carries the identity of the engine and the reason the classification
\* failed (no entrypoint, entrypoint not found, the read error, or the reason
\* the engine reported).
C14_ErrorCarriesReason ==
    (call.result = "CantHandle" /\ call.why # "-")
        => /\ \E i \in DOMAIN call.err : call.err[i] = EngineName
           /\ \E i \in DOMAIN call.err :
                  call.err[i] \in {call.why, "engine cannot handle"}

\* C15: setup_envs accepts any environment map, returns ok and changes nothing:
\* the classification cache, the executor's fields and the environment of the
\* process are after the call what they were before it, and the request exec
\* builds next takes its envs from the context, not from the map.
C15_SetupEnvsChangesNothing ==
    [][ /\ (call'.op = "setup_envs" /\ ncalls' = ncalls + 1)
            => /\ call'.result = "Ok"
               /\ penv' = penv
               /\ inner' = inner
               /\ executor' = executor
               /\ observed' = observed
               /\ fsProbes' = fsProbes /\ engineProbes' = engineProbes
               /\ req' = req /\ proc' = proc
        /\ (call.op = "setup_envs" /\ pc = "idle" /\ pc' = "connect")
            => req'.envs = call'.ctx.envs ]_vars

\* C15 witness: setup_envs has been called with a non-empty map on an executor
\* that had classified its container; the cache and the environment are as
\* they were.
C15_Witness ==
    /\ call.op = "setup_envs"
    /\ call.map = <<"Z=9">>
    /\ call.result = "Ok"
    /\ inner = "Wasm"
    /\ penv = <<>>

\* C15 witness for the dispatcher: setup_envs with a non-empty map after an
\* exec whose request carried the envs of the context.
C15_WitnessDispatcher ==
    /\ executor = "DistributedExecuter"
    /\ call.op = "setup_envs"
    /\ call.map = <<"Z=9">>
    /\ req.envs = <<"A=1", "B=2">>
    /\ penv = <<>>

\* The first call of an executor, with a plain path as source and no arg0, or
\* no executable candidate, or a chosen candidate shorter than 4 bytes.
C16_NoReadableEntrypoint ==
    /\ ncalls = 1
    /\ call.op \in {"validate", "exec"}
    /\ call.ctx.source = "File"
    /\ \/ call.ctx.arg0 = "none"
       \/ LET cands == ResolveInPath(call.ctx.arg0, fs)
              i     == FindExecutable(cands)
          IN  i = 0 \/ Len(cands[i].bytes) < 4

\* C16 as stated: with a plain path as source and no arg0, or no executable
\* candidate, or a chosen candidate shorter than 4 bytes, the classification is
\* Unsupported whatever the engine answers; never Native and never Wasm.
C16_UnsupportedWhateverEngine ==
    C16_NoReadableEntrypoint => call.cls = "CantHandle"

\* C16 amended: in those cases the classification is never Native and the
\* engine's capability probe decides: Wasm exactly when it succeeds,
\* Unsupported exactly when it fails.
C16_EngineDecides ==
    C16_NoReadableEntrypoint
        => /\ call.cls # "Linux"
           /\ call.eng \in {"ok", "err"}
           /\ call.cls = "Wasm" <=> call.eng = "ok"
           /\ call.cls = "CantHandle" <=> call.eng = "err"

\* C16 witness: the chosen candidate is a file of two bytes, "#!", and the
\* engine accepts the context: the classification is Wasm.
C16_Witness ==
    /\ C16_NoReadableEntrypoint
    /\ call.ctx.arg0 = "app"
    /\ Len(fs) >= 1
    /\ fs[1] = [mode |-> 493, bytes |-> SHEBANG2]
    /\ call.eng = "ok"
    /\ call.cls = "Wasm"

\* The bytes begin with 7f 45 4c 46, or with 23 21 ("#!").
C17_StartsNative(bytes) ==
    \/ Len(bytes) >= 4 /\ SubSeq(bytes, 1, 4) = <<127, 69, 76, 70>>
    \/ Len(bytes) >= 2 /\ bytes[1] = 35 /\ bytes[2] = 33

\* The first call of an executor, with a plain path as source, whose chosen
\* candidate has at least n bytes and begins with the ELF magic or "#!".
C17_NativeCandidate(n) ==
    /\ ncalls = 1
    /\ call.op \in {"validate", "exec"}
    /\ call.ctx.source = "File"
    /\ call.ctx.arg0 # "none"
    /\ LET cands == ResolveInPath(call.ctx.arg0, fs)
           i     == FindExecutable(cands)
       IN  /\ i # 0
           /\ Len(cands[i].bytes) >= n
           /\ C17_StartsNative(cands[i].bytes)

\* C17 as stated: a chosen candidate that begins with 7f 45 4c 46 or with "#!"
\* is classified Native whatever follows and whatever its size, a "#!" file of
\* 2 or 3 bytes included, and the engine is not consulted.
C17_MagicIsNativeAnySize ==
    C17_NativeCandidate(0) => (call.cls = "Linux" /\ call.eng = "-")

\* C17 amended: a chosen candidate of at least 4 bytes that begins with
\* 7f 45 4c 46 or with "#!" is classified Native whatever follows, and the
\* engine is not consulted.
C17_MagicIsNative ==
    C17_NativeCandidate(4) => (call.cls = "Linux" /\ call.eng = "-")

\* C17 witness: the chosen candidate is the script "#!/b"; the classification
\* is Native without an engine probe.
C17_Witness ==
    /\ C17_NativeCandidate(4)
    /\ fs[1] = [mode |-> 493, bytes |-> SHEBANG]
    /\ call.cls = "Linux"
    /\ call.eng = "-"
    /\ engineProbes = 0

\* The mode has an executable bit: owner (0o100), group (0o010) or other (0o001).
C18_AnyExecBit(mode) ==
    \/ (mode \div 64) % 2 = 1
    \/ (mode \div 8) % 2 = 1
    \/ mode % 2 = 1

\* C18: the candidate selected when arg0 is resolved is the first one in the
\* search order whose mode has any executable bit set; owner-only and
\* group-only executables qualify as other-executables do, and an earlier
\* qualifying candidate is never skipped for a later one.
C18_FirstWithAnyExecBit ==
    (ncalls = 1 /\ call.op \in {"validate", "exec"}
        /\ call.ctx.source = "File" /\ call.ctx.arg0 # "none")
        => LET cands == ResolveInPath(call.ctx.arg0, fs)
               any   == { i \in 1..Len(cands) : C18_AnyExecBit(cands[i].mode) }
           IN  /\ FindExecutable(cands) # 0 <=> any # {}
               /\ \A i \in any : FindExecutable(cands) <= i

\* C19: when the source of the entry point is a collection of WASM layers the
\* classification is never Native and no file is opened or read: it is Wasm
\* exactly when the engine's capability probe succeeds and Unsupported exactly
\* when it fails.
C19_LayersNeverNative ==
    (ncalls = 1 /\ call.op \in {"validate", "exec"} /\ call.ctx.source = "Oci")
        => /\ call.cls # "Linux"
           /\ ~call.touched
           /\ call.eng \in {"ok", "err"}
           /\ call.cls = "Wasm" <=> call.eng = "ok"
           /\ call.cls = "CantHandle" <=> call.eng = "err"

\* C19 witness: the source is a collection of layers, arg0 names an ELF
\* executable on disk, the engine accepts: the classification is Wasm and the
\* file was not read.
C19_Witness ==
    /\ ncalls = 1
    /\ call.op \in {"validate", "exec"}
    /\ call.ctx.source = "Oci"
    /\ call.ctx.arg0 = "app"
    /\ fs = << [mode |-> 493, bytes |-> ELF] >>
    /\ call.cls = "Wasm"
    /\ ~call.touched

\* C20: the classification cache belongs to the executor instance and is
\* written once, not per context: once a validate or exec call has classified a
\* first context, every later validate or exec on the instance, also with a
\* context that would classify differently, uses the first decision and makes
\* no filesystem probe and no engine capability probe.
C20_FirstDecisionKept ==
    [][ (executor = "Executor" /\ inner # "None"
            /\ ncalls' = ncalls + 1 /\ call'.op \in {"validate", "exec"})
          => /\ inner' = inner
             /\ call'.cls = inner
             /\ fsProbes' = fsProbes
             /\ engineProbes' = engineProbes
             /\ ~call'.touched ]_vars

\* C20 witness: a later call with another context, one that alone would be
\* classified Wasm, got the first decision, Native, and nothing was probed
\* for it.
C20_Witness ==
    /\ executor = "Executor"
    /\ ~sameCtx
    /\ ncalls >= 2
    /\ call.op \in {"validate", "exec"}
    /\ call.ctx.source = "Oci"
    /\ call.fresh = "Wasm"
    /\ call.cls = "Linux"
    /\ fsProbes = 1
    /\ engineProbes = 0

====
